---- MODULE Spec2Model ----
(***************************************************************************)
(* A model of the inFakt client (client.py, invoice.py): configuration     *)
(* loading, dotted-path default lookup, default date derivation, payload   *)
(* construction and the invoice workflow over HTTP.                        *)
(*                                                                         *)
(* Python values are tagged records [t, v]; Python strings are sequences   *)
(* of one-character strings, so that formatting, parsing and splitting are *)
(* modelled by what they do.                                               *)
(***************************************************************************)
EXTENDS Integers, Sequences, FiniteSets, TLC

VARIABLES
    today,      \* the system clock read by datetime.date.today()
    config,     \* the parsed contents of the configuration file
    call,       \* the operation being executed and its arguments
    pc,         \* position of the caller
    ret,        \* outcome of the last operation
    sent,       \* HTTP requests issued so far, with the response each received
    invoice     \* the Invoice held by create_and_send_invoice between its calls

vars == <<today, config, call, pc, ret, sent, invoice>>

(***************************************************************************)
(* Bounds of the model.                                                    *)
(***************************************************************************)
MinYear == 2023
MaxYear == 2025
MaxPaymentDays == 40

\* Years outside the range that exercise the century rule of leap years.
CenturyYears == {2000, 2100}

Years == (MinYear..MaxYear) \cup CenturyYears

(***************************************************************************)
(* Python values.                                                          *)
(***************************************************************************)
None == [t |-> "none"]
PyInt(n) == [t |-> "int", v |-> n]
PyStr(s) == [t |-> "str", v |-> s]
PyDict(f) == [t |-> "dict", v |-> f]
PyBool(b) == [t |-> "bool", v |-> b]
Raised(e) == [t |-> "raised", v |-> e]

\* Equality of two Python values.
Same(a, b) == a.t = b.t /\ a = b

K_title == <<"t", "i", "t", "l", "e">>
K_credentials == <<"c", "r", "e", "d", "e", "n", "t", "i", "a", "l", "s">>
K_defaults == <<"d", "e", "f", "a", "u", "l", "t", "s">>
K_api_key == <<"a", "p", "i", "_", "k", "e", "y">>

(***************************************************************************)
(* Python strings: str(int), str.zfill, str.split, int().                  *)
(***************************************************************************)
DigitChar == <<"0", "1", "2", "3", "4", "5", "6", "7", "8", "9">>

RECURSIVE str_int(_)
str_int(n) ==
    IF n < 10 THEN <<DigitChar[n + 1]>>
    ELSE str_int(n \div 10) \o <<DigitChar[(n % 10) + 1]>>

RECURSIVE zfill(_, _)
zfill(s, width) ==
    IF Len(s) >= width THEN s ELSE zfill(<<"0">> \o s, width)

DigitVal(c) == CHOOSE d \in 0..9 : DigitChar[d + 1] = c

RECURSIVE int_str(_)
int_str(s) ==
    IF Len(s) = 0 THEN 0
    ELSE 10 * int_str(SubSeq(s, 1, Len(s) - 1)) + DigitVal(s[Len(s)])

\* s.split(sep) for a one-character separator: the list of the pieces.
RECURSIVE split(_, _)
split(s, sep) ==
    IF \A i \in 1..Len(s) : s[i] # sep THEN <<s>>
    ELSE LET i == CHOOSE k \in 1..Len(s) :
                      s[k] = sep /\ \A j \in 1..(k - 1) : s[j] # sep
         IN <<SubSeq(s, 1, i - 1)>> \o split(SubSeq(s, i + 1, Len(s)), sep)

(***************************************************************************)
(* The calendar of datetime and calendar (proleptic Gregorian).            *)
(***************************************************************************)
Date(y, m, d) == [year |-> y, month |-> m, day |-> d]

isleap(y) == y % 4 = 0 /\ (y % 100 # 0 \/ y % 400 = 0)

DAYS_IN_MONTH == <<31, 28, 31, 30, 31, 30, 31, 31, 30, 31, 30, 31>>

\* calendar.monthrange(year, month)[1]
monthrange_ndays(y, m) == DAYS_IN_MONTH[m] + (IF m = 2 /\ isleap(y) THEN 1 ELSE 0)

days_before_year(y) ==
    (y - 1) * 365 + ((y - 1) \div 4) - ((y - 1) \div 100) + ((y - 1) \div 400)

RECURSIVE days_before_month(_, _)
days_before_month(y, m) ==
    IF m = 1 THEN 0
    ELSE days_before_month(y, m - 1) + monthrange_ndays(y, m - 1)

\* date.toordinal()
toordinal(dt) ==
    days_before_year(dt.year) + days_before_month(dt.year, dt.month) + dt.day

\* date.fromordinal(n), as datetime computes it from 400-, 100-, 4- and
\* 1-year cycles.
fromordinal(ord) ==
    LET n0   == ord - 1
        n400 == n0 \div 146097
        r400 == n0 % 146097
        n100 == r400 \div 36524
        r100 == r400 % 36524
        n4   == r100 \div 1461
        r4   == r100 % 1461
        n1   == r4 \div 365
        n    == r4 % 365
        year == n400 * 400 + 1 + n100 * 100 + n4 * 4 + n1
    IN IF n1 = 4 \/ n100 = 4 THEN Date(year - 1, 12, 31)
       ELSE LET leapyear == n1 = 3 /\ (n4 # 24 \/ n100 = 3)
                lp(m)    == IF m > 2 /\ leapyear THEN 1 ELSE 0
                month0   == (n + 50) \div 32
                before(m) == days_before_month(2001, m) + lp(m)
                month    == IF before(month0) > n THEN month0 - 1 ELSE month0
            IN Date(year, month, n - before(month) + 1)

\* date + datetime.timedelta(days=k)
date_add(dt, k) == fromordinal(toordinal(dt) + k)

\* datetime.datetime.strptime(s, "%Y-%m-%d").date()
strptime_ymd(s) ==
    LET parts == split(s, "-")
    IN Date(int_str(parts[1]), int_str(parts[2]), int_str(parts[3]))

\* f"{year}-{month}-{day}" of three strings
fmt_ymd(year, month, day) == year \o <<"-">> \o month \o <<"-">> \o day

ValidDates ==
    {Date(y, m, d) : y \in Years, m \in 1..12, d \in 1..31}
        \ {dt \in {Date(y, m, d) : y \in Years, m \in 1..12, d \in 29..31} :
              dt.day > monthrange_ndays(dt.year, dt.month)}

(***************************************************************************)
(* Client._get_default_invoice_date and Client._get_payment_date.          *)
(***************************************************************************)
\* The same with the mid-month test off by one (day 15 bills the previous month).
get_default_invoice_date_mut(t) ==
    LET first == [t EXCEPT !.day = 1]
        year  == IF t.month = 1 /\ t.day <= 15 THEN t.year - 1 ELSE t.year
        month == IF t.month = 1
                 THEN (IF t.day <= 15 THEN 12 ELSE t.month)
                 ELSE (IF t.day <= 15 THEN date_add(first, -1).month ELSE t.month)
        day   == monthrange_ndays(year, month)
    IN fmt_ymd(str_int(year), zfill(str_int(month), 2), zfill(str_int(day), 2))

get_default_invoice_date(t) ==
    LET first == [t EXCEPT !.day = 1]
        year  == IF t.month = 1
                 THEN (IF t.day < 15 THEN t.year - 1 ELSE t.year)
                 ELSE t.year
        month == IF t.month = 1
                 THEN (IF t.day < 15 THEN 12 ELSE t.month)
                 ELSE (IF t.day < 15 THEN date_add(first, -1).month ELSE t.month)
        day   == monthrange_ndays(year, month)
    IN fmt_ymd(str_int(year), zfill(str_int(month), 2), zfill(str_int(day), 2))

\* The same adding the days to the day of the month without carrying.
get_payment_date_mut(invoice_date, payment_days) ==
    LET date_obj == strptime_ymd(invoice_date)
    IN fmt_ymd(str_int(date_obj.year),
               zfill(str_int(date_obj.month), 2),
               zfill(str_int(date_obj.day + payment_days), 2))

get_payment_date(invoice_date, payment_days) ==
    LET date_obj         == strptime_ymd(invoice_date)
        payment_date_obj == date_add(date_obj, payment_days)
    IN fmt_ymd(str_int(payment_date_obj.year),
               zfill(str_int(payment_date_obj.month), 2),
               zfill(str_int(payment_date_obj.day), 2))


(***************************************************************************)
(* Python floats (IEEE 754 binary64): a positive finite float is           *)
(* [m, e], of value m * 2^e, with a significand m of exactly 53 bits held  *)
(* as a list of 15-bit limbs, least significant first.                     *)
(***************************************************************************)
LimbBits == 15
Limb == 32768
MantBits == 53

RECURSIVE pow2(_)
pow2(n) == IF n = 0 THEN 1 ELSE 2 * pow2(n - 1)

RECURSIVE bit_length(_)
bit_length(n) == IF n = 0 THEN 0 ELSE 1 + bit_length(n \div 2)

RECURSIVE big_of(_)
big_of(n) == IF n = 0 THEN <<>> ELSE <<n % Limb>> \o big_of(n \div Limb)

RECURSIVE big_norm(_)
big_norm(a) ==
    IF a = <<>> THEN a
    ELSE IF a[Len(a)] = 0 THEN big_norm(SubSeq(a, 1, Len(a) - 1)) ELSE a

big_bits(a) ==
    IF a = <<>> THEN 0 ELSE LimbBits * (Len(a) - 1) + bit_length(a[Len(a)])

RECURSIVE big_mul_carry(_, _, _)
big_mul_carry(a, k, carry) ==
    IF a = <<>> THEN (IF carry = 0 THEN <<>> ELSE <<carry>>)
    ELSE LET cur == Head(a) * k + carry
         IN <<cur % Limb>> \o big_mul_carry(Tail(a), k, cur \div Limb)

\* a * k for 0 < k <= Limb
big_mul(a, k) == big_mul_carry(a, k, 0)

RECURSIVE big_shl(_, _)
big_shl(a, s) ==
    IF a = <<>> THEN a
    ELSE IF s >= LimbBits THEN <<0>> \o big_shl(a, s - LimbBits)
    ELSE big_mul(a, pow2(s))

RECURSIVE big_divmod_raw(_, _)
big_divmod_raw(a, k) ==
    IF a = <<>> THEN [q |-> <<>>, r |-> 0]
    ELSE LET h   == big_divmod_raw(Tail(a), k)
             cur == h.r * Limb + Head(a)
         IN [q |-> <<cur \div k>> \o h.q, r |-> cur % k]

\* quotient and remainder of a by k, for 0 < k <= Limb
big_divmod(a, k) ==
    LET d == big_divmod_raw(a, k) IN [q |-> big_norm(d.q), r |-> d.r]

big_inc(a) ==
    IF a = <<>> THEN <<1>>
    ELSE LET i == CHOOSE k \in 1..(Len(a) + 1) :
                      /\ (k <= Len(a) => a[k] # Limb - 1)
                      /\ \A j \in 1..(k - 1) : a[j] = Limb - 1
         IN [j \in 1..(IF i > Len(a) THEN i ELSE Len(a)) |->
                IF j < i THEN 0 ELSE IF j = i
                THEN (IF i > Len(a) THEN 1 ELSE a[j] + 1) ELSE a[j]]

big_odd(a) == a # <<>> /\ a[1] % 2 = 1

\* Round to nearest, ties to even: q with remainder r out of d, at exponent e.
round_half_even(q, r, d, e) ==
    LET up == 2 * r > d \/ (2 * r = d /\ big_odd(q))
        m  == IF up THEN big_inc(q) ELSE q
    IN IF big_bits(m) > MantBits
       THEN [m |-> big_divmod(m, 2).q, e |-> e + 1]
       ELSE [m |-> m, e |-> e]

\* The float nearest to num / den (num, den positive integers): a decimal
\* literal such as 286.15, and the true division int / int.
float_of_ratio(num, den) ==
    LET s0 == MantBits - bit_length(num) + bit_length(den)
        d0 == big_divmod(big_shl(big_of(num), s0), den)
        s  == IF big_bits(d0.q) > MantBits THEN s0 - 1 ELSE s0
        d  == IF s = s0 THEN d0 ELSE big_divmod(big_shl(big_of(num), s), den)
    IN round_half_even(d.q, d.r, den, 0 - s)

\* float * int, for 0 < k <= 128
float_mul_int(x, k) ==
    LET p == big_mul(x.m, k)
        t == big_bits(p) - MantBits
    IN IF t = 0 THEN [m |-> p, e |-> x.e]
       ELSE LET d == big_divmod(p, pow2(t))
            IN round_half_even(d.q, d.r, pow2(t), x.e + t)

\* Whether the float is the integer n (n > 0).
float_is_int(x, n) ==
    x.e <= 0 /\ big_shl(big_of(n), 0 - x.e) = x.m

PyFloat(x) == [t |-> "float", v |-> x]

\* value * 100
py_mul_100(value) ==
    IF value.t = "int" THEN PyInt(value.v * 100)
    ELSE PyFloat(float_mul_int(value.v, 100))

\* value / 100 (true division) of an int
py_div_100(value) == PyFloat(float_of_ratio(value.v, 100))

(***************************************************************************)
(* Config (a pydantic model) and Client._get_config.                       *)
(***************************************************************************)
API_KEY_LEN == 40

\* dict.get(key, default)
dict_get(d, key, default) == IF key \in DOMAIN d.v THEN d.v[key] ELSE default

\* The same accepting any key of at least 40 characters.
validate_creds_mut(creds) ==
    LET api_key == dict_get(creds, K_api_key, PyStr(<<>>))
    IN Len(api_key.v) >= API_KEY_LEN

\* Config.validate_creds: whether the assertion on the key passes.
validate_creds(creds) ==
    LET api_key == dict_get(creds, K_api_key, PyStr(<<>>))
    IN Len(api_key.v) = API_KEY_LEN

\* Config(**toml.load(path)): title, credentials and defaults are required
\* fields; the validator of credentials runs when the field is given.
get_config(file) ==
    IF /\ K_title \in DOMAIN file.v
       /\ K_credentials \in DOMAIN file.v
       /\ K_defaults \in DOMAIN file.v
       /\ validate_creds(file.v[K_credentials])
    THEN [t |-> "Config", v |-> file.v]
    ELSE Raised("ValidationError")

(***************************************************************************)
(* Client._get_default_from_config.                                        *)
(***************************************************************************)
\* The step of the reduction without the test that d is a dict.
deep_get_step_mut(d, key, default) ==
    IF d.t = "none" THEN Raised("AttributeError") ELSE
    IF d.t = "raised" THEN d ELSE
    IF d.t = "dict" THEN dict_get(d, key, default) ELSE Raised("AttributeError")

\* lambda d, key: d.get(key, default) if isinstance(d, dict) else default
deep_get_step(d, key, default) ==
    IF d.t = "dict" THEN dict_get(d, key, default) ELSE default

\* functools.reduce(step, keys, initial)
RECURSIVE reduce_get(_, _, _)
reduce_get(acc, keys, default) ==
    IF keys = <<>> THEN acc
    ELSE reduce_get(deep_get_step(acc, Head(keys), default), Tail(keys), default)

deep_get(dictionary, keys, default) ==
    reduce_get(dictionary, split(keys, "."), default)

get_default_from_config(file, value) ==
    LET cfg == get_config(file)
    IN IF cfg.t = "raised" THEN cfg
       ELSE deep_get(PyDict(cfg.v), K_defaults \o <<".">> \o value, None)

(***************************************************************************)
(* The HTTP collaborator (requests) and Invoice.                           *)
(***************************************************************************)
\* Response.raise_for_status raises for the statuses 400 to 599.
raises_for_status(status) == 400 <= status /\ status < 600

\* The same raising for server errors only.
response_ok_mut(status) == ~(500 <= status /\ status < 600)

\* Response.ok: raise_for_status does not raise.
response_ok(status) == ~raises_for_status(status)

\* The same never raising for a client error.
http_error_mut(status) == 500 <= status /\ status < 600

\* response.raise_for_status() in create_invoice: whether it raises.
http_error(status) == raises_for_status(status)

INVOICE_FIELDS ==
    {"id", "number", "invoice_date", "sale_date", "net_price", "tax_price",
     "gross_price", "client_id"}

\* Invoice.__init__: a missing field raises KeyError; prices are divided by 100.
Invoice(json) ==
    IF ~(INVOICE_FIELDS \subseteq DOMAIN json.v) THEN Raised("KeyError")
    ELSE [t |-> "Invoice",
          v |-> [id           |-> json.v["id"],
                 number       |-> json.v["number"],
                 invoice_date |-> json.v["invoice_date"],
                 sale_date    |-> json.v["sale_date"],
                 net_price    |-> py_div_100(json.v["net_price"]),
                 tax_price    |-> py_div_100(json.v["tax_price"]),
                 gross_price  |-> py_div_100(json.v["gross_price"]),
                 client_id    |-> json.v["client_id"]]]

\* str(value)
py_str(value) ==
    IF value.t = "int" THEN str_int(value.v)
    ELSE IF value.t = "none" THEN <<"N", "o", "n", "e">>
    ELSE value.v

\* Client._get_headers
get_headers(file) ==
    LET cfg == get_config(file)
    IN IF cfg.t = "raised" THEN cfg
       ELSE PyDict([k \in {"X-inFakt-ApiKey"} |-> cfg.v[K_credentials].v[K_api_key]])

(***************************************************************************)
(* Client.create_invoice.                                                  *)
(***************************************************************************)
DEFAULT_PAYMENT_DAYS == 14
TAX_SYMBOL == 23

P_service_name == <<"i", "n", "v", "o", "i", "c", "e", ".", "s", "e", "r", "v", "i", "c", "e", ".", "n", "a", "m", "e">>
P_client_id == <<"i", "n", "v", "o", "i", "c", "e", ".", "c", "l", "i", "e", "n", "t", "_", "i", "d">>
P_gtu_id == <<"i", "n", "v", "o", "i", "c", "e", ".", "s", "e", "r", "v", "i", "c", "e", ".", "g", "t", "u", "_", "i", "d">>
P_client_email == <<"i", "n", "v", "o", "i", "c", "e", ".", "c", "l", "i", "e", "n", "t", "_", "e", "m", "a", "i", "l">>

\* value if value is not None else self._get_default_from_config(path)
or_default(value, file, path) ==
    IF value.t # "none" THEN value ELSE get_default_from_config(file, path)

\* The binding of the keyword arguments: payment_days is 14 when not given.
bind_create_invoice(kwargs) ==
    [kwargs EXCEPT !.payment_days =
        IF kwargs.payment_days.t = "none" THEN PyInt(DEFAULT_PAYMENT_DAYS)
        ELSE kwargs.payment_days]

\* The same with the default dates taken from the dates resolved before them.
resolve_dates_mut(args, t) ==
    LET default_invoice_date == get_default_invoice_date(t)
        invoice_date == IF args.invoice_date.t # "none" THEN args.invoice_date
                        ELSE PyStr(default_invoice_date)
        sale_date == IF args.sale_date.t # "none" THEN args.sale_date
                     ELSE invoice_date
        payment_date == IF args.payment_date.t # "none" THEN args.payment_date
                        ELSE PyStr(get_payment_date(invoice_date.v, args.payment_days.v))
    IN [sale_date |-> sale_date, invoice_date |-> invoice_date,
        payment_date |-> payment_date]

\* The dates of the payload.
resolve_dates(args, t) ==
    LET default_invoice_date == get_default_invoice_date(t)
        default_payment_date ==
            get_payment_date(default_invoice_date, args.payment_days.v)
    IN [sale_date |-> IF args.sale_date.t # "none" THEN args.sale_date
                      ELSE PyStr(default_invoice_date),
        invoice_date |-> IF args.invoice_date.t # "none" THEN args.invoice_date
                         ELSE PyStr(default_invoice_date),
        payment_date |-> IF args.payment_date.t # "none" THEN args.payment_date
                         ELSE PyStr(default_payment_date)]

\* The same with the sale date filled from the invoice date.
build_payload_mut(args, service_name, client_id, gtu_id, dates) ==
    [invoice |->
        [client_id      |-> PyStr(py_str(client_id)),
         payment_method |-> "transfer",
         sale_date      |-> dates.invoice_date,
         invoice_date   |-> dates.invoice_date,
         payment_date   |-> dates.payment_date,
         services       |-> <<[name        |-> service_name,
                               gross_price |-> py_mul_100(args.gross_price),
                               tax_symbol  |-> TAX_SYMBOL,
                               gtu_id      |-> gtu_id]>>]]

\* The payload of the creation request.
build_payload(args, service_name, client_id, gtu_id, dates) ==
    [invoice |->
        [client_id      |-> PyStr(py_str(client_id)),
         payment_method |-> "transfer",
         sale_date      |-> dates.sale_date,
         invoice_date   |-> dates.invoice_date,
         payment_date   |-> dates.payment_date,
         services       |-> <<[name        |-> service_name,
                               gross_price |-> py_mul_100(args.gross_price),
                               tax_symbol  |-> TAX_SYMBOL,
                               gtu_id      |-> gtu_id]>>]]

\* create_invoice: the requests it issues and what it returns or raises, given
\* the response of the remote service.
create_invoice(kwargs, file, t, response) ==
    LET args         == bind_create_invoice(kwargs)
        service_name == or_default(args.service_name, file, P_service_name)
        client_id    == or_default(args.client_id, file, P_client_id)
        gtu_id       == or_default(args.gtu_id, file, P_gtu_id)
        dates        == resolve_dates(args, t)
        payload      == build_payload(args, service_name, client_id, gtu_id, dates)
        headers      == get_headers(file)
        request      == [kind |-> "create", method |-> "POST",
                         number |-> <<>>, headers |-> headers,
                         body |-> payload, response |-> response]
    IN IF service_name.t = "raised" THEN [sent |-> <<>>, ret |-> service_name]
       ELSE IF client_id.t = "raised" THEN [sent |-> <<>>, ret |-> client_id]
       ELSE IF gtu_id.t = "raised" THEN [sent |-> <<>>, ret |-> gtu_id]
       ELSE IF headers.t = "raised" THEN [sent |-> <<>>, ret |-> headers]
       ELSE IF http_error(response.status)
       THEN [sent |-> <<request>>, ret |-> Raised("HTTPError")]
       ELSE [sent |-> <<request>>, ret |-> Invoice(response.json)]

(***************************************************************************)
(* Client.get_invoice, Client.send_invoice, Client.delete_invoice.         *)
(***************************************************************************)
get_invoice(invoice_number, file, response) ==
    LET headers == get_headers(file)
        request == [kind |-> "get", method |-> "GET",
                    number |-> py_str(invoice_number), headers |-> headers,
                    body |-> None, response |-> response]
    IN IF headers.t = "raised" THEN [sent |-> <<>>, ret |-> headers]
       ELSE [sent |-> <<request>>, ret |-> Invoice(response.json)]

send_invoice(invoice_number, email_arg, send_copy, file, response) ==
    LET email   == or_default(email_arg, file, P_client_email)
        data    == [print_type |-> "original", locale |-> "pe",
                    recipient |-> email, send_copy |-> send_copy]
        headers == get_headers(file)
        request == [kind |-> "deliver", method |-> "POST",
                    number |-> py_str(invoice_number), headers |-> headers,
                    body |-> data, response |-> response]
    IN IF email.t = "raised" THEN [sent |-> <<>>, ret |-> email]
       ELSE IF headers.t = "raised" THEN [sent |-> <<>>, ret |-> headers]
       ELSE IF ~response_ok(response.status)
       THEN [sent |-> <<request>>, ret |-> PyBool(FALSE)]
       ELSE [sent |-> <<request>>, ret |-> PyBool(TRUE)]

delete_invoice(invoice_number, file, response) ==
    LET headers == get_headers(file)
        request == [kind |-> "delete", method |-> "DELETE",
                    number |-> py_str(invoice_number), headers |-> headers,
                    body |-> None, response |-> response]
    IN IF headers.t = "raised" THEN [sent |-> <<>>, ret |-> headers]
       ELSE [sent |-> <<request>>, ret |-> PyBool(response_ok(response.status))]

(***************************************************************************)
(* Specification of the default invoice date: the clock shows any date and *)
(* the client computes the default invoice date from it.                   *)
(***************************************************************************)
InitDate ==
    /\ today \in ValidDates
    /\ config = None
    /\ call = None
    /\ pc = "idle"
    /\ ret = None
    /\ sent = <<>>
    /\ invoice = None

GetDefaultInvoiceDate ==
    /\ pc = "idle"
    /\ pc' = "done"
    /\ call' = [op |-> "_get_default_invoice_date"]
    /\ ret' = [t |-> "str", v |-> get_default_invoice_date(today)]
    /\ UNCHANGED <<today, config, sent, invoice>>

NextDate == GetDefaultInvoiceDate

SpecDate == InitDate /\ [][NextDate]_vars

\* What the calendar says: the length of a month, and the month before a month.
CalendarMonthLength(y, m) ==
    IF m \in {4, 6, 9, 11} THEN 30
    ELSE IF m # 2 THEN 31
    ELSE IF y % 400 = 0 \/ (y % 4 = 0 /\ y % 100 # 0) THEN 29 ELSE 28

BilledMonth(t) ==
    IF t.day >= 15 THEN <<t.year, t.month>>
    ELSE IF t.month = 1 THEN <<t.year - 1, 12>>
    ELSE <<t.year, t.month - 1>>

IsYMD(s, y, m, d) ==
    /\ Len(s) = 10
    /\ s[5] = "-" /\ s[8] = "-"
    /\ \A i \in {1, 2, 3, 4, 6, 7, 9, 10} : \E k \in 1..10 : DigitChar[k] = s[i]
    /\ int_str(SubSeq(s, 1, 4)) = y
    /\ int_str(SubSeq(s, 6, 7)) = m
    /\ int_str(SubSeq(s, 9, 10)) = d

\* C2: the default invoice date is the last calendar day of the current month
\* from day 15 on and of the previous calendar month before day 15 (December
\* of the previous year in January), the day being the length of that month,
\* written YYYY-MM-DD with month and day zero-padded.
C2_DefaultInvoiceDate ==
    (pc = "done" /\ call.op = "_get_default_invoice_date") =>
        LET b == BilledMonth(today)
        IN IsYMD(ret.v, b[1], b[2], CalendarMonthLength(b[1], b[2]))

\* C2 witness: on 10 March of a leap year the default invoice date is
\* 29 February.
C2_Witness ==
    /\ pc = "done" /\ call.op = "_get_default_invoice_date"
    /\ today = Date(2024, 3, 10)
    /\ ret.v = <<"2", "0", "2", "4", "-", "0", "2", "-", "2", "9">>

(***************************************************************************)
(* Specification of the payment date: any invoice date string and any      *)
(* number of payment days.                                                 *)
(***************************************************************************)
DateString(dt) ==
    fmt_ymd(zfill(str_int(dt.year), 4), zfill(str_int(dt.month), 2),
            zfill(str_int(dt.day), 2))

InitPayment ==
    /\ today = Date(MinYear, 1, 1)
    /\ config = None
    /\ call \in [op : {"_get_payment_date"},
                 invoice_date : {DateString(dt) : dt \in ValidDates},
                 payment_days : 0..MaxPaymentDays]
    /\ pc = "idle"
    /\ ret = None
    /\ sent = <<>>
    /\ invoice = None

GetPaymentDate ==
    /\ pc = "idle"
    /\ pc' = "done"
    /\ ret' = [t |-> "str", v |-> get_payment_date(call.invoice_date, call.payment_days)]
    /\ UNCHANGED <<today, config, call, sent, invoice>>

NextPayment == GetPaymentDate

SpecPayment == InitPayment /\ [][NextPayment]_vars

\* The day after a day, and the n-th day after a day, by the calendar.
CalendarNextDay(dt) ==
    IF dt.day < CalendarMonthLength(dt.year, dt.month)
    THEN Date(dt.year, dt.month, dt.day + 1)
    ELSE IF dt.month < 12 THEN Date(dt.year, dt.month + 1, 1)
    ELSE Date(dt.year + 1, 1, 1)

RECURSIVE CalendarDaysAfter(_, _)
CalendarDaysAfter(dt, n) ==
    IF n = 0 THEN dt ELSE CalendarDaysAfter(CalendarNextDay(dt), n - 1)

\* C3: the payment date is the calendar date exactly payment_days days after
\* the invoice date, carried across month ends, leap-year February and year
\* ends, written YYYY-MM-DD with zero padding.
C3_PaymentDate ==
    (pc = "done" /\ call.op = "_get_payment_date") =>
        LET s == call.invoice_date
            d == Date(int_str(SubSeq(s, 1, 4)), int_str(SubSeq(s, 6, 7)),
                      int_str(SubSeq(s, 9, 10)))
            e == CalendarDaysAfter(d, call.payment_days)
        IN IsYMD(ret.v, e.year, e.month, e.day)

\* C3 witness: 2024-01-31 plus 14 days gives 2024-02-14.
C3_Witness ==
    /\ pc = "done" /\ call.op = "_get_payment_date"
    /\ call.invoice_date = <<"2", "0", "2", "4", "-", "0", "1", "-", "3", "1">>
    /\ call.payment_days = 14
    /\ ret.v = <<"2", "0", "2", "4", "-", "0", "2", "-", "1", "4">>

(***************************************************************************)
(* Configuration files.                                                    *)
(***************************************************************************)
MaxKeyLen == 42
MaxDepth == 2
MaxSegs == 3

KeyNames == {<<"a">>, <<"i", "d">>}
Leaves == {PyInt(7)}

StrOfLen(n) == [i \in 1..n |-> "k"]

\* A configuration file with the given sections (None: the section is absent).
MakeFile(title, creds, defaults) ==
    LET given == (IF title.t = "none" THEN {} ELSE {K_title})
                     \cup (IF creds.t = "none" THEN {} ELSE {K_credentials})
                     \cup (IF defaults.t = "none" THEN {} ELSE {K_defaults})
    IN PyDict([k \in given |->
                  IF k = K_title THEN title
                  ELSE IF k = K_credentials THEN creds ELSE defaults])

DictsOver(values) ==
    {PyDict(f) : f \in UNION {[K -> values] : K \in SUBSET KeyNames}}

RECURSIVE NodesOfDepth(_)
NodesOfDepth(d) ==
    IF d = 0 THEN Leaves ELSE Leaves \cup DictsOver(NodesOfDepth(d - 1))

CredentialTables ==
    {PyDict(<<>>)}
        \cup {PyDict([k \in {K_api_key} |-> PyStr(StrOfLen(n))]) : n \in 0..MaxKeyLen}

ValidCredentials == PyDict([k \in {K_api_key} |-> PyStr(StrOfLen(API_KEY_LEN))])

RECURSIVE join(_, _)
join(segs, sep) ==
    IF Len(segs) = 1 THEN segs[1]
    ELSE segs[1] \o <<sep>> \o join(Tail(segs), sep)

SegmentLists == UNION {[1..n -> KeyNames] : n \in 1..MaxSegs}

(***************************************************************************)
(* Specification of configuration loading: any configuration file.         *)
(***************************************************************************)
InitConfig ==
    /\ today = Date(MinYear, 1, 1)
    /\ \E title \in {None, PyStr(<<"t">>)},
          creds \in {None} \cup CredentialTables,
          defaults \in {None, PyDict(<<>>)} :
           config = MakeFile(title, creds, defaults)
    /\ call = [op |-> "_get_config"]
    /\ pc = "idle"
    /\ ret = None
    /\ sent = <<>>
    /\ invoice = None

GetConfig ==
    /\ pc = "idle"
    /\ pc' = "done"
    /\ ret' = get_config(config)
    /\ UNCHANGED <<today, config, call, sent, invoice>>

NextConfig == GetConfig

SpecConfig == InitConfig /\ [][NextConfig]_vars

HasKeyOfLen(file, n) ==
    /\ K_credentials \in DOMAIN file.v
    /\ K_api_key \in DOMAIN file.v[K_credentials].v
    /\ Len(file.v[K_credentials].v[K_api_key].v) = n

InitLookup ==
    /\ today = Date(MinYear, 1, 1)
    /\ \E defaults \in DictsOver(NodesOfDepth(MaxDepth - 1)) :
           config = MakeFile(PyStr(<<"t">>), ValidCredentials, defaults)
    /\ \E segs \in SegmentLists :
           call = [op |-> "_get_default_from_config", value |-> join(segs, ".")]
    /\ pc = "idle"
    /\ ret = None
    /\ sent = <<>>
    /\ invoice = None

GetDefaultFromConfig ==
    /\ pc = "idle"
    /\ pc' = "done"
    /\ ret' = get_default_from_config(config, call.value)
    /\ UNCHANGED <<today, config, call, sent, invoice>>

NextLookup == GetDefaultFromConfig

SpecLookup == InitLookup /\ [][NextLookup]_vars

\* Every segment of the list is present, walking down from the node.
RECURSIVE AllPresent(_, _)
AllPresent(node, segs) ==
    \/ segs = <<>>
    \/ /\ node.t = "dict"
       /\ Head(segs) \in DOMAIN node.v
       /\ AllPresent(node.v[Head(segs)], Tail(segs))

RECURSIVE StoredValue(_, _)
StoredValue(node, segs) ==
    IF segs = <<>> THEN node ELSE StoredValue(node.v[Head(segs)], Tail(segs))

\* C4: the lookup returns the stored value when every segment of the path is
\* present, and None, without raising, when a segment is absent or a node
\* reached before the last segment is not a mapping.
C4_Lookup ==
    (pc = "done" /\ call.op = "_get_default_from_config") =>
        \A segs \in SegmentLists :
            join(segs, ".") = call.value =>
                IF AllPresent(config.v[K_defaults], segs)
                THEN Same(ret, StoredValue(config.v[K_defaults], segs))
                ELSE ret.t = "none"

\* C4 witness: a path of two segments whose first segment holds a value that
\* is not a mapping.
C4_Witness ==
    /\ pc = "done" /\ call.op = "_get_default_from_config"
    /\ call.value = <<"a", ".", "i", "d">>
    /\ <<"a">> \in DOMAIN config.v[K_defaults].v
    /\ config.v[K_defaults].v[<<"a">>].t = "int"
    /\ ret.t = "none"

(***************************************************************************)
(* The remote service and the operations of the client as actions.         *)
(***************************************************************************)
MaxCents == 120

Statuses == {200, 204, 304, 404, 500}
InvoiceIds == {101, 102}
\* An amount the service reports that is not the one transmitted.
OtherAmounts == {12300}

\* The amounts in minor units a caller bills: up to MaxCents, and 286.15.
Cents == (1..MaxCents) \cup {28615}

InvoiceJson(id, gross) ==
    PyDict([id           |-> PyInt(id),
            number       |-> PyStr(<<"7", "/", "1">>),
            invoice_date |-> PyStr(<<"2", "0", "2", "4", "-", "0", "1", "-", "3", "1">>),
            sale_date    |-> PyStr(<<"2", "0", "2", "4", "-", "0", "1", "-", "3", "1">>),
            net_price    |-> PyInt(gross),
            tax_price    |-> PyInt(gross),
            gross_price  |-> PyInt(gross),
            client_id    |-> PyInt(5)])

ErrorJson == PyDict([error |-> PyStr(<<"e">>)])

\* The amounts the service may report for a creation: the transmitted amount
\* when it is a whole number of minor units, or another amount.
ServerAmounts(amount) ==
    LET x == py_mul_100(amount)
    IN OtherAmounts \cup
       (IF x.t = "int" THEN {x.v} ELSE {n \in Cents : float_is_int(x.v, n)})

CreateResponses(amount) ==
    {[status |-> st, json |-> body] :
        st \in Statuses,
        body \in {ErrorJson} \cup
                 {InvoiceJson(id, g) : id \in InvoiceIds, g \in ServerAmounts(amount)}}

Responses ==
    {[status |-> st, json |-> body] :
        st \in Statuses, body \in {ErrorJson, InvoiceJson(101, 12300)}}

CreateInvoice ==
    /\ pc = "idle"
    /\ call.op = "create_invoice"
    /\ \E response \in CreateResponses(call.kwargs.gross_price) :
           LET out == create_invoice(call.kwargs, config, today, response)
           IN /\ sent' = sent \o out.sent
              /\ ret' = out.ret
    /\ pc' = "done"
    /\ UNCHANGED <<today, config, call, invoice>>

GetInvoice ==
    /\ pc = "idle"
    /\ call.op = "get_invoice"
    /\ \E response \in Responses :
           LET out == get_invoice(call.invoice_number, config, response)
           IN /\ sent' = sent \o out.sent
              /\ ret' = out.ret
    /\ pc' = "done"
    /\ UNCHANGED <<today, config, call, invoice>>

SendInvoice ==
    /\ pc = "idle"
    /\ call.op = "send_invoice"
    /\ \E response \in Responses :
           LET out == send_invoice(call.invoice_number, call.email, call.send_copy,
                                   config, response)
           IN /\ sent' = sent \o out.sent
              /\ ret' = out.ret
    /\ pc' = "done"
    /\ UNCHANGED <<today, config, call, invoice>>

DeleteInvoice ==
    /\ pc = "idle"
    /\ call.op = "delete_invoice"
    /\ \E response \in Responses :
           LET out == delete_invoice(call.invoice_number, config, response)
           IN /\ sent' = sent \o out.sent
              /\ ret' = out.ret
    /\ pc' = "done"
    /\ UNCHANGED <<today, config, call, invoice>>

\* The number create_and_send_invoice hands to send_invoice, mistaken for the
\* client of the invoice.
delivery_number_mut(inv) == inv.v.client_id

\* invoice.id, the number create_and_send_invoice hands to send_invoice.
delivery_number(inv) == inv.v.id

\* create_and_send_invoice, first statement: invoice = self.create_invoice(...).
\* An exception leaves the function.
CreateAndSend_Create ==
    /\ pc = "idle"
    /\ call.op = "create_and_send_invoice"
    /\ \E response \in CreateResponses(call.kwargs.gross_price) :
           LET out == create_invoice(call.kwargs, config, today, response)
           IN /\ sent' = sent \o out.sent
              /\ IF out.ret.t = "raised"
                 THEN /\ ret' = out.ret
                      /\ pc' = "done"
                      /\ invoice' = invoice
                 ELSE /\ ret' = ret
                      /\ pc' = "created"
                      /\ invoice' = out.ret
    /\ UNCHANGED <<today, config, call>>

\* create_and_send_invoice, second statement: was_sent = self.send_invoice(...),
\* which is returned.
CreateAndSend_Send ==
    /\ pc = "created"
    /\ \E response \in Responses :
           LET out == send_invoice(delivery_number(invoice), call.email,
                                   call.send_copy, config, response)
           IN /\ sent' = sent \o out.sent
              /\ ret' = out.ret
    /\ pc' = "done"
    /\ UNCHANGED <<today, config, call, invoice>>

(***************************************************************************)
(* Configuration files with defaults for the invoice, and callers.         *)
(***************************************************************************)
S_invoice == <<"i", "n", "v", "o", "i", "c", "e">>
S_service == <<"s", "e", "r", "v", "i", "c", "e">>
S_name == <<"n", "a", "m", "e">>
S_client_id == <<"c", "l", "i", "e", "n", "t", "_", "i", "d">>
S_gtu_id == <<"g", "t", "u", "_", "i", "d">>
S_client_email == <<"c", "l", "i", "e", "n", "t", "_", "e", "m", "a", "i", "l">>

FullDefaults ==
    PyDict([k \in {S_invoice} |->
        PyDict([j \in {S_client_id, S_client_email, S_service} |->
            IF j = S_client_id THEN PyInt(5)
            ELSE IF j = S_client_email THEN PyStr(<<"c", "@", "x">>)
            ELSE PyDict([i \in {S_name, S_gtu_id} |->
                     IF i = S_name THEN PyStr(<<"w", "o", "r", "k">>)
                     ELSE PyInt(12)])])])

\* Defaults whose invoice entry is not a table.
FlatDefaults == PyDict([k \in {S_invoice} |-> PyInt(7)])

EmptyDefaults == PyDict(<<>>)

ConfigWith(defaults) == MakeFile(PyStr(<<"t">>), ValidCredentials, defaults)

\* A configuration file whose api_key is too short.
BadKeyConfig ==
    MakeFile(PyStr(<<"t">>),
             PyDict([k \in {K_api_key} |-> PyStr(StrOfLen(API_KEY_LEN - 1))]),
             FullDefaults)

GivenSaleDate == PyStr(<<"2", "0", "2", "4", "-", "0", "2", "-", "0", "2">>)
GivenInvoiceDate == PyStr(<<"2", "0", "2", "4", "-", "0", "2", "-", "0", "3">>)
GivenPaymentDate == PyStr(<<"2", "0", "2", "4", "-", "0", "2", "-", "0", "4">>)

Kwargs(amounts) ==
    [gross_price  : amounts,
     service_name : {None, PyStr(<<"s">>)},
     client_id    : {None, PyInt(42)},
     gtu_id       : {None, PyInt(3)},
     sale_date    : {None, GivenSaleDate},
     invoice_date : {None, GivenInvoiceDate},
     payment_date : {None, GivenPaymentDate},
     payment_days : {None, PyInt(0), PyInt(30)}]

NoKwargs(amount) ==
    [gross_price |-> amount, service_name |-> None, client_id |-> None,
     gtu_id |-> None, sale_date |-> None, invoice_date |-> None,
     payment_date |-> None, payment_days |-> None]

SampleDays ==
    {Date(MinYear + 1, 1, 14), Date(MinYear + 1, 1, 15), Date(MinYear + 1, 3, 10),
     Date(MaxYear, 12, 31)}

(***************************************************************************)
(* Specification of invoice creation: any combination of supplied and      *)
(* omitted fields.                                                         *)
(***************************************************************************)
InitCreate ==
    /\ today \in SampleDays
    /\ config \in {ConfigWith(FullDefaults), ConfigWith(EmptyDefaults)}
    /\ \E kw \in Kwargs({PyInt(100)}) : call = [op |-> "create_invoice", kwargs |-> kw]
    /\ pc = "idle"
    /\ ret = None
    /\ sent = <<>>
    /\ invoice = None

NextCreate == CreateInvoice

SpecCreate == InitCreate /\ [][NextCreate]_vars

(***************************************************************************)
(* Specification of the amounts: any amount, as a float or as an int.      *)
(***************************************************************************)
InitMoney ==
    /\ today = Date(MinYear + 1, 1, 20)
    /\ config = ConfigWith(FullDefaults)
    /\ \E amount \in {PyFloat(float_of_ratio(c, 100)) : c \in Cents}
                         \cup {PyInt(n) : n \in 1..3} :
           call = [op |-> "create_invoice", kwargs |-> NoKwargs(amount)]
    /\ pc = "idle"
    /\ ret = None
    /\ sent = <<>>
    /\ invoice = None

NextMoney == CreateInvoice

SpecMoney == InitMoney /\ [][NextMoney]_vars

(***************************************************************************)
(* Specification of the workflow: any operation of the client against any  *)
(* response of the remote service.                                         *)
(***************************************************************************)
FlowCalls ==
    [op : {"create_and_send_invoice"}, kwargs : {NoKwargs(PyInt(100))},
     email : {None, PyStr(<<"a", "@", "b">>)}, send_copy : BOOLEAN]
    \cup [op : {"create_invoice"}, kwargs : {NoKwargs(PyInt(100))}]
    \cup [op : {"send_invoice"}, invoice_number : {PyInt(id) : id \in InvoiceIds},
          email : {None, PyStr(<<"a", "@", "b">>)}, send_copy : BOOLEAN]
    \cup [op : {"delete_invoice", "get_invoice"},
          invoice_number : {PyInt(id) : id \in InvoiceIds}]

Init ==
    /\ today = Date(MinYear + 1, 1, 20)
    /\ config \in {ConfigWith(FullDefaults), ConfigWith(FlatDefaults), BadKeyConfig}
    /\ call \in FlowCalls
    /\ pc = "idle"
    /\ ret = None
    /\ sent = <<>>
    /\ invoice = None

Next ==
    \/ CreateInvoice
    \/ GetInvoice
    \/ SendInvoice
    \/ DeleteInvoice
    \/ CreateAndSend_Create
    \/ CreateAndSend_Send

Spec == Init /\ [][Next]_vars

(***************************************************************************)
(* Properties of invoice creation.                                         *)
(***************************************************************************)
\* The value the settings hold under defaults at a list of segments, or None.
Setting(file, segs) ==
    IF AllPresent(file.v[K_defaults], segs)
    THEN StoredValue(file.v[K_defaults], segs) ELSE None

Given(value, fallback) == IF value.t # "none" THEN value ELSE fallback

Payload == sent[1].body.invoice

Created == pc = "done" /\ call.op = "create_invoice" /\ sent # <<>>

\* The last day of the month billed on a day.
DefaultInvoiceDay(t) ==
    LET b == BilledMonth(t) IN Date(b[1], b[2], CalendarMonthLength(b[1], b[2]))

IsDate(value, dt) == value.t = "str" /\ IsYMD(value.v, dt.year, dt.month, dt.day)

\* The string form of a client id: decimal digits of an int, "None" of None.
IsStringOf(s, value) ==
    /\ s.t = "str"
    /\ value.t = "int" => int_str(s.v) = value.v /\ Len(s.v) = Len(str_int(value.v))
    /\ value.t = "none" => s.v = <<"N", "o", "n", "e">>

PaymentDays(kw) ==
    IF kw.payment_days.t = "none" THEN 14 ELSE kw.payment_days.v

FieldsOtherThanClientId(kw, p) ==
    /\ Same(p.services[1].name,
            Given(kw.service_name, Setting(config, <<S_invoice, S_service, S_name>>)))
    /\ Same(p.services[1].gtu_id,
            Given(kw.gtu_id, Setting(config, <<S_invoice, S_service, S_gtu_id>>)))
    /\ IF kw.sale_date.t # "none" THEN Same(p.sale_date, kw.sale_date)
       ELSE IsDate(p.sale_date, DefaultInvoiceDay(today))
    /\ IF kw.invoice_date.t # "none" THEN Same(p.invoice_date, kw.invoice_date)
       ELSE IsDate(p.invoice_date, DefaultInvoiceDay(today))
    /\ IF kw.payment_date.t # "none" THEN Same(p.payment_date, kw.payment_date)
       ELSE IsDate(p.payment_date,
                   CalendarDaysAfter(DefaultInvoiceDay(today), PaymentDays(kw)))

\* C6 as stated: each of service_name, client_id, gtu_id, sale_date,
\* invoice_date and payment_date is transmitted unchanged when supplied and
\* replaced by its own default when omitted, whatever the other fields are.
C6_Original ==
    Created =>
        /\ FieldsOtherThanClientId(call.kwargs, Payload)
        /\ Same(Payload.client_id,
                Given(call.kwargs.client_id, Setting(config, <<S_invoice, S_client_id>>)))

\* C6 as amended: the same, except that client_id (supplied, or taken from the
\* settings, or missing) is transmitted as its string form.
C6_FieldsIndependent ==
    Created =>
        /\ FieldsOtherThanClientId(call.kwargs, Payload)
        /\ IsStringOf(Payload.client_id,
                      Given(call.kwargs.client_id,
                            Setting(config, <<S_invoice, S_client_id>>)))

\* C6 witness: only the invoice date and the client id are supplied; the sale
\* date transmitted is the default one and the client id is transmitted as "42".
C6_Witness ==
    /\ Created
    /\ today = Date(MinYear + 1, 1, 15)
    /\ call.kwargs.invoice_date = GivenInvoiceDate
    /\ call.kwargs.sale_date.t = "none"
    /\ call.kwargs.client_id = PyInt(42)
    /\ Payload.invoice_date = GivenInvoiceDate
    /\ IsDate(Payload.sale_date, Date(MinYear + 1, 1, 31))
    /\ Payload.client_id = PyStr(<<"4", "2">>)

\* C10: when payment_date is omitted, the payment date transmitted is the
\* default invoice date plus payment_days days (14 when payment_days is not
\* given), whatever invoice_date and sale_date were supplied.
C10_DefaultPaymentDate ==
    (Created /\ call.kwargs.payment_date.t = "none") =>
        IsDate(Payload.payment_date,
               CalendarDaysAfter(DefaultInvoiceDay(today), PaymentDays(call.kwargs)))

\* C10 witness: on 15 January an invoice date of 3 February is supplied,
\* payment_date and payment_days are omitted, and the payment date transmitted
\* is 14 February (31 January plus 14 days).
C10_Witness ==
    /\ Created
    /\ today = Date(MinYear + 1, 1, 15)
    /\ call.kwargs.invoice_date = GivenInvoiceDate
    /\ call.kwargs.payment_date.t = "none"
    /\ call.kwargs.payment_days.t = "none"
    /\ IsDate(Payload.payment_date, Date(MinYear + 1, 2, 14))

\* C7: the amount transmitted is the caller's amount in minor units (286.15
\* is transmitted as 28615), and when the service reports that amount back
\* the Invoice stores the amount the caller passed.
C7_RoundTrip ==
    Created =>
        LET amount      == call.kwargs.gross_price
            transmitted == Payload.services[1].gross_price
            reported    == sent[1].response.json.v
        IN \A c \in Cents :
               (amount.t = "float" /\ amount.v = float_of_ratio(c, 100)) =>
                   /\ transmitted.t = "float" /\ float_is_int(transmitted.v, c)
                   /\ (ret.t = "Invoice" /\ reported["gross_price"].v = c) =>
                          ret.v.gross_price = amount

(***************************************************************************)
(* Properties of the workflow.                                             *)
(***************************************************************************)
Last(seq) == seq[Len(seq)]

\* C1: in create_and_send_invoice a delivery request is only issued after a
\* creation request that returned an invoice, and it names the id of that
\* invoice; when creation raises, no delivery request is issued and the
\* caller gets the exception.
C1_CreateBeforeSend ==
    call.op = "create_and_send_invoice" =>
        /\ \A j \in 1..Len(sent) :
               sent[j].kind = "deliver" =>
                   /\ j = 2
                   /\ sent[1].kind = "create"
                   /\ "id" \in DOMAIN sent[1].response.json.v
                   /\ int_str(sent[j].number) = sent[1].response.json.v["id"].v
        /\ (pc = "done" /\ invoice.t = "none") =>
               /\ ret.t = "raised"
               /\ \A j \in 1..Len(sent) : sent[j].kind # "deliver"

\* C1 witness: creation returned invoice 102 and the delivery request for
\* invoice 102 was issued after it.
C1_Witness ==
    /\ call.op = "create_and_send_invoice"
    /\ pc = "done"
    /\ Len(sent) = 2
    /\ sent[1].kind = "create" /\ sent[2].kind = "deliver"
    /\ sent[1].response.json.v["id"] = PyInt(102)
    /\ sent[2].number = <<"1", "0", "2">>
    /\ ret = PyBool(TRUE)

Answered ==
    /\ pc = "done"
    /\ sent # <<>>
    /\ Last(sent).kind \in {"delete", "deliver"}

\* C8 as stated: delete_invoice and send_invoice return true on a 2xx response
\* and false on every other response, and never raise because of the status.
C8_Original ==
    Answered =>
        /\ ret.t = "bool"
        /\ ret.v <=> (200 <= Last(sent).response.status
                          /\ Last(sent).response.status < 300)

\* C8 as amended: delete_invoice and send_invoice never raise because of the
\* status; each returns true when the status is below 400 and false on every
\* 4xx and 5xx response.
C8_SoftFailure ==
    Answered =>
        /\ ret.t = "bool"
        /\ ret.v <=> Last(sent).response.status < 400

\* C8 witness: a delete answered 404 returned false.
C8_Witness ==
    /\ Answered
    /\ call.op = "delete_invoice"
    /\ Last(sent).response.status = 404
    /\ ret = PyBool(FALSE)

====
